---- MODULE Spec2Model ----
(***************************************************************************)
(* StockTracker dashboard (src/dashboard.py): the metrics table computed   *)
(* by get_data, its memoization by (ticker, period), and the weighted      *)
(* portfolio composite.                                                    *)
(*                                                                         *)
(* Numbers are exact extended rationals <<n, d>>: d > 0 is the reduced     *)
(* fraction n/d, <<0, 0>> is NaN (pandas' missing value), <<1, 0>> and     *)
(* <<-1, 0>> are +inf and -inf.  Arithmetic follows IEEE-754 for the       *)
(* special values (x/0, 0/0, NaN propagation); rounding is not modelled.   *)
(***************************************************************************)
EXTENDS Integers, Sequences, FiniteSets

VARIABLES hist, ma20_window, ma50_window, tickers, period, cache, data,
          enable_portfolio, portfolio_tickers, weights, warning, portfolio,
          rendered

vars == <<hist, ma20_window, ma50_window, tickers, period, cache, data,
          enable_portfolio, portfolio_tickers, weights, warning, portfolio,
          rendered>>

(***************************************************************************)
(* Extended rational arithmetic                                            *)
(***************************************************************************)
NaN == <<0, 0>>
PosInf == <<1, 0>>
NegInf == <<-1, 0>>
Zero == <<0, 1>>
One == <<1, 1>>

AbsInt(n) == IF n < 0 THEN -n ELSE n
SgnInt(n) == IF n < 0 THEN -1 ELSE IF n = 0 THEN 0 ELSE 1

RECURSIVE GCD(_, _)
GCD(a, b) == IF b = 0 THEN a ELSE GCD(b, a % b)

\* the reduced fraction n/d; a zero denominator gives NaN or a signed infinity
Norm(n, d) ==
    IF d = 0 THEN <<SgnInt(n), 0>>
    ELSE LET g == GCD(AbsInt(n), AbsInt(d))
             s == SgnInt(d)
         IN  <<s * (n \div g), s * (d \div g)>>

Num(n) == <<n, 1>>
IsNaN(x) == x = NaN
IsInf(x) == x[2] = 0 /\ x[1] # 0
IsFinite(x) == x[2] # 0

Neg(x) == <<-x[1], x[2]>>

Add(x, y) ==
    IF IsNaN(x) \/ IsNaN(y) THEN NaN
    ELSE IF IsInf(x) /\ IsInf(y) THEN (IF x = y THEN x ELSE NaN)
    ELSE IF IsInf(x) THEN x
    ELSE IF IsInf(y) THEN y
    ELSE LET g == GCD(x[2], y[2])
         IN  Norm(x[1] * (y[2] \div g) + y[1] * (x[2] \div g),
                  (x[2] \div g) * y[2])

Sub(x, y) == Add(x, Neg(y))

Mul(x, y) ==
    IF x[2] = 0 \/ y[2] = 0 THEN Norm(SgnInt(x[1]) * SgnInt(y[1]), 0)
    ELSE LET g1 == GCD(AbsInt(x[1]), y[2])
             g2 == GCD(AbsInt(y[1]), x[2])
         IN  Norm((x[1] \div g1) * (y[1] \div g2),
                  (x[2] \div g2) * (y[2] \div g1))

Recip(x) ==
    IF x[2] = 0 THEN (IF x[1] = 0 THEN NaN ELSE Zero)
    ELSE IF x[1] = 0 THEN PosInf
    ELSE Norm(x[2], x[1])

Div(x, y) == Mul(x, Recip(y))

\* x < y; false as soon as one side is NaN
Less(x, y) ==
    IF IsNaN(x) \/ IsNaN(y) THEN FALSE
    ELSE IF IsInf(x) \/ IsInf(y)
         THEN (IF IsInf(x) THEN x[1] ELSE 0) < (IF IsInf(y) THEN y[1] ELSE 0)
    ELSE LET g == GCD(x[2], y[2])
         IN  x[1] * (y[2] \div g) < y[1] * (x[2] \div g)

Leq(x, y) == ~IsNaN(x) /\ ~IsNaN(y) /\ ~Less(y, x)

(***************************************************************************)
(* pandas Series operations on sequences of values                         *)
(***************************************************************************)
RECURSIVE SumRange(_, _, _)
SumRange(s, lo, hi) ==
    IF hi < lo THEN Zero ELSE Add(SumRange(s, lo, hi - 1), s[hi])

\* Series.rolling(w).mean(): missing until w observations are in the window
RollingMean(s, w) ==
    [i \in 1..Len(s) |->
        IF i < w \/ \E j \in (i - w + 1)..i : IsNaN(s[j]) THEN NaN
        ELSE Div(SumRange(s, i - w + 1, i), Num(w))]

\* Series.pct_change(): s[i] / s[i-1] - 1, missing on the first row
PctChange(s) ==
    [i \in 1..Len(s) |->
        IF i = 1 THEN NaN ELSE Sub(Div(s[i], s[i - 1]), One)]

\* Series.diff(): s[i] - s[i-1], missing on the first row
Diff(s) ==
    [i \in 1..Len(s) |-> IF i = 1 THEN NaN ELSE Sub(s[i], s[i - 1])]

RECURSIVE ProdSkipNa(_, _)
ProdSkipNa(s, i) ==
    IF i = 0 THEN One
    ELSE IF IsNaN(s[i]) THEN ProdSkipNa(s, i - 1)
    ELSE Mul(ProdSkipNa(s, i - 1), s[i])

\* Series.cumprod(): a missing row stays missing and is skipped by the product
CumProd(s) ==
    [i \in 1..Len(s) |-> IF IsNaN(s[i]) THEN NaN ELSE ProdSkipNa(s, i)]

RECURSIVE MaxSkipNa(_, _)
MaxSkipNa(s, i) ==
    IF i = 0 THEN NaN
    ELSE LET m == MaxSkipNa(s, i - 1)
         IN  IF IsNaN(s[i]) THEN m
             ELSE IF IsNaN(m) \/ Less(m, s[i]) THEN s[i] ELSE m

\* Series.cummax(): a missing row stays missing and is skipped by the maximum
CumMax(s) ==
    [i \in 1..Len(s) |-> IF IsNaN(s[i]) THEN NaN ELSE MaxSkipNa(s, i)]

\* Series.where(cond, 0) for cond = "value > 0": NaN > 0 is false
WherePositive(s) ==
    [i \in 1..Len(s) |-> IF Less(Zero, s[i]) THEN s[i] ELSE Zero]

\* Series.where(cond, 0) for cond = "value < 0"
WhereNegative(s) ==
    [i \in 1..Len(s) |-> IF Less(s[i], Zero) THEN s[i] ELSE Zero]

NotNa(s) == {i \in 1..Len(s) : ~IsNaN(s[i])}

RECURSIVE SumSkipNa(_, _)
SumSkipNa(s, i) ==
    IF i = 0 THEN Zero
    ELSE IF IsNaN(s[i]) THEN SumSkipNa(s, i - 1)
    ELSE Add(SumSkipNa(s, i - 1), s[i])

\* Series.mean(): over the rows that are not missing; NaN when there is none
Mean(s) == Div(SumSkipNa(s, Len(s)), Num(Cardinality(NotNa(s))))

\* the square of Series.std() (ddof = 1): NaN with fewer than two values
Variance(s) ==
    LET n == Cardinality(NotNa(s))
        m == Mean(s)
        sq == [i \in 1..Len(s) |->
                 IF IsNaN(s[i]) THEN NaN ELSE Mul(Sub(s[i], m), Sub(s[i], m))]
    IN  IF n <= 1 THEN NaN ELSE Div(SumSkipNa(sq, Len(s)), Num(n - 1))

(***************************************************************************)
(* get_data: the metrics table of one ticker                               *)
(***************************************************************************)
RSIWindow == 14
AnnualDays == 252

\* a Sharpe value is sign * sqrt(square); the square root is kept symbolic
SharpeNaN == [sign |-> 0, square |-> NaN]
SharpeZero == [sign |-> 0, square |-> Zero]

\* mean / volatility * (252 ** 0.5), with volatility = sqrt(variance)
Annualized(mean, variance) ==
    IF IsNaN(mean) \/ IsNaN(variance) THEN SharpeNaN
    ELSE [sign |-> SgnInt(mean[1]),
          square |-> Mul(Num(AnnualDays), Div(Mul(mean, mean), variance))]

\* df["Close"].rolling(window).mean()
MovingAverage(close, window) == RollingMean(close, window)

\* df["Returns"] = df["Close"].pct_change()
Returns(close) == PctChange(close)

\* mutant: the returns themselves are compounded, without the 1 +
CumulativeOfBareReturns(returns) == CumProd(returns)

\* df["Cumulative"] = (1 + df["Returns"]).cumprod()
Cumulative(returns) ==
    CumProd([i \in 1..Len(returns) |-> Add(One, returns[i])])

\* gain = (delta.where(delta > 0, 0)).rolling(14).mean()
Gain(close) == RollingMean(WherePositive(Diff(close)), RSIWindow)

\* loss = (-delta.where(delta < 0, 0)).rolling(14).mean()
Loss(close) ==
    LET neg == WhereNegative(Diff(close))
    IN  RollingMean([i \in 1..Len(close) |-> Neg(neg[i])], RSIWindow)

\* rs = gain / loss; df['RSI'] = 100 - (100 / (1 + rs))
RSI(close) ==
    LET gain == Gain(close)
        loss == Loss(close)
    IN  [i \in 1..Len(close) |->
            Sub(Num(100), Div(Num(100), Add(One, Div(gain[i], loss[i]))))]

\* rolling_max = cummax(); (Cumulative - rolling_max) / rolling_max
Drawdown(cumulative) ==
    LET rolling_max == CumMax(cumulative)
    IN  [i \in 1..Len(cumulative) |->
            Div(Sub(cumulative[i], rolling_max[i]), rolling_max[i])]

\* mean_return / volatility * (252**0.5) if volatility != 0 else 0
Sharpe(returns) ==
    LET mean_return == Mean(returns)
        variance == Variance(returns)
    IN  IF variance # Zero THEN Annualized(mean_return, variance)
        ELSE SharpeZero

\* the table get_data builds from the bars yfinance returns
get_data(bars, w20, w50) ==
    LET close == [i \in 1..Len(bars.Close) |-> Num(bars.Close[i])]
        returns == Returns(close)
        cumulative == Cumulative(returns)
    IN  [Date |-> bars.Date,
         Close |-> close,
         MA20 |-> MovingAverage(close, w20),
         MA50 |-> MovingAverage(close, w50),
         Returns |-> returns,
         Cumulative |-> cumulative,
         RSI |-> RSI(close),
         Drawdown |-> Drawdown(cumulative),
         Sharpe |-> Sharpe(returns)]

(***************************************************************************)
(* The script: sidebar settings, memoized get_data, the two dashboards     *)
(***************************************************************************)
\* two of the seven entries of stock_options
Tickers == {"AAPL", "MSFT"}

\* two of the five entries of the period selectbox
Periods == {"1mo", "3mo"}

MA20Min == 5
MA20Default == 20
MA50Min == 20
MA50Default == 50

\* the slider positions tried, besides the defaults
MaxMA20Tried == 6
MaxMA50Tried == 20

MA20Windows == (MA20Min..MaxMA20Tried) \cup {MA20Default}
MA50Windows == (MA50Min..MaxMA50Tried) \cup {MA50Default}

\* st.cache_data: the entry of (ticker, period) when there is one, else the
\* function body with the window settings of this run
CachedGetData(c, h, t, per, w20, w50) ==
    IF <<t, per>> \in DOMAIN c THEN c[<<t, per>>]
    ELSE get_data(h[<<t, per>>], w20, w50)

\* the memo after the calls get_data(t, per) for t in called
CacheAfter(c, h, called, per, w20, w50) ==
    [k \in DOMAIN c \cup {<<t, per>> : t \in called} |->
        CachedGetData(c, h, k[1], k[2], w20, w50)]

RECURSIVE SumSeq(_, _)
SumSeq(ws, i) == IF i = 0 THEN Zero ELSE Add(SumSeq(ws, i - 1), ws[i])

AbsVal(x) == IF Less(x, Zero) THEN Neg(x) ELSE x

Tolerance == Norm(1, 100)

\* mutant: the difference is compared without abs()
WeightMismatchSigned(ws) == Less(Tolerance, Sub(SumSeq(ws, Len(ws)), One))

\* abs(sum(weights) - 1) > 0.01
WeightMismatch(ws) == Less(Tolerance, AbsVal(Sub(SumSeq(ws, Len(ws)), One)))

\* mutant: a date the column lacks counts as 0
AtDateZeroFilled(index, values, d) ==
    IF \E i \in 1..Len(index) : index[i] = d
    THEN values[CHOOSE i \in 1..Len(index) : index[i] = d]
    ELSE Zero

\* the value of an indexed column at date d, missing when d is no row of it
AtDate(index, values, d) ==
    IF \E i \in 1..Len(index) : index[i] = d
    THEN values[CHOOSE i \in 1..Len(index) : index[i] = d]
    ELSE NaN

EmptyFrame == [index |-> <<>>, Cumulative |-> <<>>, Daily_Return |-> <<>>]

\* mutant: the first ticker's growth factors are not compounded
PortfolioStepUncompounded(pd, df, weight) ==
    LET weighted == [i \in 1..Len(df.Returns) |-> Mul(df.Returns[i], weight)]
    IN  IF pd.index = <<>>
        THEN [index |-> df.Date,
              Cumulative |-> [i \in 1..Len(weighted) |-> Add(One, weighted[i])],
              Daily_Return |-> weighted]
        ELSE [index |-> pd.index,
              Cumulative |-> [i \in 1..Len(pd.index) |->
                  Mul(pd.Cumulative[i],
                      Add(One, AtDate(df.Date, weighted, pd.index[i])))],
              Daily_Return |-> [i \in 1..Len(pd.index) |->
                  Add(pd.Daily_Return[i],
                      AtDate(df.Date, weighted, pd.index[i]))]]

\* one pass of the accumulation loop; an operation between two columns aligns
\* them by date and the assignment keeps the rows of portfolio_data
PortfolioStep(pd, df, weight) ==
    LET weighted == [i \in 1..Len(df.Returns) |-> Mul(df.Returns[i], weight)]
    IN  IF pd.index = <<>>
        THEN [index |-> df.Date,
              Cumulative |->
                  CumProd([i \in 1..Len(weighted) |-> Add(One, weighted[i])]),
              Daily_Return |-> weighted]
        ELSE [index |-> pd.index,
              Cumulative |-> [i \in 1..Len(pd.index) |->
                  Mul(pd.Cumulative[i],
                      Add(One, AtDate(df.Date, weighted, pd.index[i])))],
              Daily_Return |-> [i \in 1..Len(pd.index) |->
                  Add(pd.Daily_Return[i],
                      AtDate(df.Date, weighted, pd.index[i]))]]

RECURSIVE PortfolioLoop(_, _, _, _, _)
PortfolioLoop(c, per, ptk, ws, k) ==
    IF k = 0 THEN EmptyFrame
    ELSE PortfolioStep(PortfolioLoop(c, per, ptk, ws, k - 1),
                       c[<<ptk[k], per>>], ws[k])

\* sharpe = mean_ret / vol * (252**0.5) if vol != 0 else 0
PortfolioSharpe(daily) ==
    LET mean_ret == Mean(daily)
        variance == Variance(daily)
    IN  IF variance # Zero THEN Annualized(mean_ret, variance)
        ELSE SharpeZero

\* mutant: the difference is taken the other way round
PortfolioDrawdownFlipped(cumulative) ==
    LET rolling_max == CumMax(cumulative)
    IN  [i \in 1..Len(cumulative) |->
            Div(Sub(rolling_max[i], cumulative[i]), rolling_max[i])]

\* drawdown = (Cumulative - rolling_max) / rolling_max
PortfolioDrawdown(cumulative) ==
    LET rolling_max == CumMax(cumulative)
    IN  [i \in 1..Len(cumulative) |->
            Div(Sub(cumulative[i], rolling_max[i]), rolling_max[i])]

NoPortfolio ==
    [shown |-> FALSE, index |-> <<>>, Cumulative |-> <<>>,
     Daily_Return |-> <<>>, sharpe |-> SharpeZero, drawdown |-> <<>>]

\* the Portfolio Dashboard section
PortfolioDashboard(c, per, en, ptk, ws) ==
    IF en /\ Len(ws) = Len(ptk)
    THEN LET pd == PortfolioLoop(c, per, ptk, ws, Len(ptk))
         IN  [shown |-> TRUE, index |-> pd.index,
              Cumulative |-> pd.Cumulative,
              Daily_Return |-> pd.Daily_Return,
              sharpe |-> PortfolioSharpe(pd.Daily_Return),
              drawdown |-> PortfolioDrawdown(pd.Cumulative)]
    ELSE NoPortfolio

Range(seq) == {seq[i] : i \in 1..Len(seq)}

\* one execution of the script, top to bottom, with the given settings
Script(h, w20, w50, tk, per, en, ptk, ws, c) ==
    LET called == Range(tk) \cup
                  (IF en /\ Len(ws) = Len(ptk) THEN Range(ptk) ELSE {})
        c2 == CacheAfter(c, h, called, per, w20, w50)
    IN  [cache |-> c2,
         data |-> [i \in 1..Len(tk) |-> c2[<<tk[i], per>>]],
         warning |-> en /\ WeightMismatch(ws),
         portfolio |-> PortfolioDashboard(c2, per, en, ptk, ws)]

\* the settings change to the primed ones and the script runs again
Rerun ==
    \E out \in {Script(hist', ma20_window', ma50_window', tickers', period',
                       enable_portfolio', portfolio_tickers', weights',
                       cache)} :
        /\ cache' = out.cache
        /\ data' = out.data
        /\ warning' = out.warning
        /\ portfolio' = out.portfolio
        /\ rendered' = TRUE

\* the first execution, with the settings the session starts from
RunScript ==
    /\ ~rendered
    /\ UNCHANGED <<hist, ma20_window, ma50_window, tickers, period,
                   enable_portfolio, portfolio_tickers, weights>>
    /\ Rerun

\* the MA20 Window slider moves
SetMA20Window(w) ==
    /\ rendered
    /\ w # ma20_window
    /\ ma20_window' = w
    /\ UNCHANGED <<hist, ma50_window, tickers, period,
                   enable_portfolio, portfolio_tickers, weights>>
    /\ Rerun

\* the MA50 Window slider moves
SetMA50Window(w) ==
    /\ rendered
    /\ w # ma50_window
    /\ ma50_window' = w
    /\ UNCHANGED <<hist, ma20_window, tickers, period,
                   enable_portfolio, portfolio_tickers, weights>>
    /\ Rerun

\* the stock multiselect changes
SelectStocks(tk) ==
    /\ rendered
    /\ tk # tickers
    /\ tickers' = tk
    /\ UNCHANGED <<hist, ma20_window, ma50_window, period,
                   enable_portfolio, portfolio_tickers, weights>>
    /\ Rerun

\* the period selectbox changes
SetPeriod(per) ==
    /\ rendered
    /\ per # period
    /\ period' = per
    /\ UNCHANGED <<hist, ma20_window, ma50_window, tickers,
                   enable_portfolio, portfolio_tickers, weights>>
    /\ Rerun

(***************************************************************************)
(* Inputs                                                                  *)
(***************************************************************************)
MaxClose == 3
MaxBars == 4
MaxFree == 3
MaxPad == 18
MaxDate == 3
MaxWeights == 3

\* rows are numbered by their date
BarsOf(dates, closes) == [Date |-> dates, Close |-> closes]

Days(n) == [i \in 1..n |-> i]

\* every series of up to MaxBars closes
ShortBars ==
    UNION {{BarsOf(Days(n), c) : c \in [1..n -> 1..MaxClose]} :
           n \in 1..MaxBars}

\* a series that moves freely for up to MaxFree bars and then stays flat
PadAfter(s, k) ==
    [i \in 1..(Len(s) + k) |-> IF i <= Len(s) THEN s[i] ELSE s[Len(s)]]

FreeCloses == UNION {[1..n -> 1..MaxClose] : n \in 1..MaxFree}

LongBars ==
    {BarsOf(Days(Len(s) + k), PadAfter(s, k)) :
        s \in FreeCloses, k \in 0..MaxPad}

\* the dates of D in ascending order
Ascending(D) ==
    CHOOSE seq \in [1..Cardinality(D) -> D] :
        \A i \in 1..(Cardinality(D) - 1) : seq[i] < seq[i + 1]

Prices == {1, 2}

\* tickers trade on calendars of their own
CalendarBars ==
    UNION {{BarsOf(Ascending(D), c) : c \in [1..Cardinality(D) -> Prices]} :
           D \in SUBSET (1..MaxDate) \ {{}}}

\* three bars on the same three dates, starting at the same price
SampleBars == {BarsOf(Days(3), <<1>> \o c) : c \in [1..2 -> Prices]}

\* what a multiselect returns: each option at most once, in selection order
Selections ==
    {seq \in UNION {[1..n -> Tickers] : n \in 0..Cardinality(Tickers)} :
        \A i, j \in 1..Len(seq) : i # j => seq[i] # seq[j]}

\* weights as typed: a leveraged short or half the portfolio, ...
SplitChoices == {Norm(-2, 1), Norm(1, 2)}

\* ... all of it, ...
LeverageChoices == SplitChoices \cup {One}

\* ... or an amount within or just off the tolerance
WeightChoices == LeverageChoices \cup {Norm(1, 128), Norm(3, 128)}

WeightLists == UNION {[1..n -> WeightChoices] : n \in 1..MaxWeights}

\* bars per period for the memoization scenario: a longer lookback returns
\* one more bar of the same series
PeriodBars(per) == IF per = "1mo" THEN MA20Min ELSE MA20Min + 1

Lookback(closes, n) ==
    BarsOf([i \in 1..n |-> Len(closes) - n + i],
           [i \in 1..n |-> closes[Len(closes) - n + i]])

MarketCloses ==
    {[i \in 1..(MA20Min + 1) |-> i], [i \in 1..(MA20Min + 1) |-> MA20Min + 2 - i]}

(***************************************************************************)
(* Specifications                                                          *)
(***************************************************************************)
\* the session as the sidebar leaves it on its first run
Defaults ==
    /\ tickers = <<"AAPL">>
    /\ period = "1mo"
    /\ enable_portfolio = FALSE
    /\ portfolio_tickers = <<>>
    /\ weights = <<>>

\* nothing memoized, nothing rendered
Fresh ==
    /\ cache = <<>>
    /\ data = <<>>
    /\ warning = FALSE
    /\ portfolio = NoPortfolio
    /\ rendered = FALSE

\* the session with the portfolio view on, the portfolio tickers being
\* selected for the single-stock dashboard too
PortfolioView ==
    /\ portfolio_tickers \in Selections \ {<<>>}
    /\ tickers = portfolio_tickers
    /\ ma20_window = MA20Default
    /\ ma50_window = MA50Default
    /\ period = "1mo"
    /\ enable_portfolio = TRUE

\* the dashboard under changing settings, portfolio view off
InitCache ==
    /\ \E m \in [Tickers -> MarketCloses] :
          hist = [k \in Tickers \X Periods |->
                     Lookback(m[k[1]], PeriodBars(k[2]))]
    /\ ma20_window = MA20Default
    /\ ma50_window = MA50Default
    /\ Defaults
    /\ Fresh

NextCache ==
    \/ RunScript
    \/ \E w \in MA20Windows : SetMA20Window(w)
    \/ \E w \in MA50Windows : SetMA50Window(w)
    \/ \E tk \in Selections : SelectStocks(tk)
    \/ \E per \in Periods : SetPeriod(per)

SpecCache == InitCache /\ [][NextCache]_vars

\* get_data on one long series, under each window setting
InitEngine ==
    /\ \E b \in LongBars : hist = [k \in {<<"AAPL", "1mo">>} |-> b]
    /\ ma20_window \in MA20Windows
    /\ ma50_window \in MA50Windows
    /\ Defaults
    /\ Fresh

SpecEngine == InitEngine /\ [][RunScript]_vars

\* one ticker, any short series, held alone in the portfolio
InitSeries ==
    /\ PortfolioView
    /\ Len(portfolio_tickers) = 1
    /\ hist \in [Range(portfolio_tickers) \X {"1mo"} -> ShortBars]
    /\ weights \in [1..1 -> LeverageChoices]
    /\ Fresh

SpecSeries == InitSeries /\ [][RunScript]_vars

\* any list of weights typed for one or two portfolio tickers
InitWeights ==
    /\ PortfolioView
    /\ hist \in [Range(portfolio_tickers) \X {"1mo"} -> SampleBars]
    /\ weights \in WeightLists
    /\ Fresh

SpecWeights == InitWeights /\ [][RunScript]_vars

\* the portfolio view on tickers with calendars of their own
InitPortfolio ==
    /\ PortfolioView
    /\ hist \in [Range(portfolio_tickers) \X {"1mo"} -> CalendarBars]
    /\ weights \in [1..Len(portfolio_tickers) -> SplitChoices]
    /\ Fresh

SpecPortfolio == InitPortfolio /\ [][RunScript]_vars

(***************************************************************************)
(* Properties                                                              *)
(***************************************************************************)
Rows(col) == 1..Len(col)

\* C1: after any sequence of get_data calls interleaved with changes of the
\* two window settings, the MA columns of every displayed table are the ones
\* of the currently configured windows.
C1_CurrentWindows ==
    rendered =>
        \A i \in Rows(tickers) :
            /\ data[i].MA20 = RollingMean(data[i].Close, ma20_window)
            /\ data[i].MA50 = RollingMean(data[i].Close, ma50_window)

\* the tickers of the portfolio trade on the same dates
DateAligned ==
    \A i, j \in Rows(portfolio_tickers) :
        hist[<<portfolio_tickers[i], period>>].Date =
        hist[<<portfolio_tickers[j], period>>].Date

RECURSIVE Compound(_, _)
Compound(r, i) ==
    IF i = 0 THEN One
    ELSE IF IsNaN(r[i]) THEN Compound(r, i - 1)
    ELSE Mul(Compound(r, i - 1), Add(One, r[i]))

Reverse(seq) == [i \in Rows(seq) |-> seq[Len(seq) + 1 - i]]

\* C2: for date-aligned tickers the composite cumulative value at each date
\* is the product of (1 + composite daily return) over the dates up to it,
\* and it does not depend on the order of the (ticker, weight) pairs.
C2_CompositeCumulative ==
    (portfolio.shown /\ DateAligned) =>
        /\ \A i \in Rows(portfolio.index) :
              ~IsNaN(portfolio.Daily_Return[i]) =>
                  portfolio.Cumulative[i] = Compound(portfolio.Daily_Return, i)
        /\ portfolio.Cumulative =
              PortfolioLoop(cache, period, Reverse(portfolio_tickers),
                            Reverse(weights), Len(weights)).Cumulative

\* the table get_data computes for the k-th portfolio ticker
Direct(k) ==
    get_data(hist[<<portfolio_tickers[k], period>>], ma20_window, ma50_window)

SingleTicker ==
    portfolio.shown /\ Len(portfolio_tickers) = 1 /\ weights = <<One>>

\* C3: a portfolio of one ticker with weight 1.0 has the daily return,
\* cumulative, drawdown and Sharpe of get_data for that ticker, row by row.
C3_SingleTickerIdentity ==
    SingleTicker =>
        /\ portfolio.Daily_Return = Direct(1).Returns
        /\ portfolio.Cumulative = Direct(1).Cumulative
        /\ portfolio.drawdown = Direct(1).Drawdown
        /\ portfolio.sharpe = Direct(1).Sharpe

C3_Witness ==
    /\ SingleTicker
    /\ portfolio.sharpe.sign # 0
    /\ \E i \in Rows(portfolio.drawdown) : Less(portfolio.drawdown[i], Zero)

\* the standard deviation of r is 0, or r holds at most one return
NoSpread(r) == Cardinality(NotNa(r)) <= 1 \/ Variance(r) = Zero

\* C4: when the standard deviation of the returns is 0 or cannot be formed
\* from more than one return, the Sharpe ratio is 0, for each asset and for
\* the portfolio.
C4_SharpeZeroWithoutSpread ==
    rendered =>
        /\ \A i \in Rows(data) :
              NoSpread(data[i].Returns) => data[i].Sharpe = SharpeZero
        /\ (portfolio.shown /\ NoSpread(portfolio.Daily_Return)) =>
              portfolio.sharpe = SharpeZero

\* the weights are multiples of 1/128: their sum in that unit
RECURSIVE Sum128(_, _)
Sum128(ws, i) ==
    IF i = 0 THEN 0 ELSE Sum128(ws, i - 1) + ws[i][1] * (128 \div ws[i][2])

\* the sum of the weights is further than 0.01 from 1
OffByMoreThanTolerance(ws) == 100 * AbsInt(Sum128(ws, Len(ws)) - 128) > 128

\* C6 as stated: the warning is raised exactly when the sum of the weights
\* is further than 0.01 from 1, and the composite is produced either way.
C6_WarnAndAlwaysProduce ==
    rendered =>
        /\ warning <=> OffByMoreThanTolerance(weights)
        /\ portfolio.shown

\* C6 as amended: the warning is raised exactly when the sum of the weights
\* is further than 0.01 from 1; the composite is produced, warning or not,
\* exactly when there are as many weights as portfolio tickers.
C6_WarnAndProduceOnEqualLength ==
    rendered =>
        /\ warning <=> OffByMoreThanTolerance(weights)
        /\ portfolio.shown <=> Len(weights) = Len(portfolio_tickers)

C6_Witness ==
    /\ rendered /\ warning /\ portfolio.shown
    /\ Len(portfolio_tickers) = 2
    /\ AbsInt(Sum128(weights, Len(weights)) - 128) = 3
    /\ \E i \in Rows(portfolio.index) : ~IsNaN(portfolio.Cumulative[i])

\* the dates on which every portfolio ticker has a bar
CommonDates ==
    {d \in 1..MaxDate :
        \A k \in Rows(portfolio_tickers) :
            d \in Range(hist[<<portfolio_tickers[k], period>>].Date)}

\* the dates on which every portfolio ticker has a daily return: a bar that
\* is not its first
CommonReturnDates ==
    {d \in 1..MaxDate :
        \A k \in Rows(portfolio_tickers) :
            LET dates == hist[<<portfolio_tickers[k], period>>].Date
            IN  \E i \in 2..Len(dates) : dates[i] = d}

DefinedDates(index, col) == {index[i] : i \in NotNa(col)}

ReversedFrame ==
    PortfolioLoop(cache, period, Reverse(portfolio_tickers),
                  Reverse(weights), Len(weights))

\* C7 as stated: the composite holds exactly the dates on which every
\* constituent has data, whichever constituent is listed first.
C7_ExactlyCommonDates ==
    portfolio.shown =>
        /\ Range(portfolio.index) = CommonDates
        /\ Range(ReversedFrame.index) = CommonDates

\* C7 as amended: the rows of the composite are the dates of the first
\* listed constituent; its values are defined on exactly the dates on which
\* every constituent has a daily return and missing (not zero) elsewhere;
\* that set of dates is the same whichever constituent is listed first.
C7_DefinedOnCommonReturnDates ==
    portfolio.shown =>
        /\ portfolio.index = hist[<<portfolio_tickers[1], period>>].Date
        /\ DefinedDates(portfolio.index, portfolio.Daily_Return)
              = CommonReturnDates
        /\ DefinedDates(portfolio.index, portfolio.Cumulative)
              = CommonReturnDates
        /\ DefinedDates(ReversedFrame.index, ReversedFrame.Daily_Return)
              = CommonReturnDates
        /\ DefinedDates(ReversedFrame.index, ReversedFrame.Cumulative)
              = CommonReturnDates

C7_Witness ==
    /\ portfolio.shown
    /\ Len(portfolio_tickers) = 2
    /\ CommonReturnDates # {}
    /\ Range(portfolio.index) \ CommonDates # {}
    /\ Range(ReversedFrame.index) \ Range(portfolio.index) # {}

\* row i holds the largest defined value of col so far
AtRunningMax(col, i) ==
    /\ ~IsNaN(col[i])
    /\ \A j \in 1..i : IsNaN(col[j]) \/ Leq(col[j], col[i])

\* the largest defined value of col up to row i is positive
PositivePeak(col, i) == \E j \in 1..i : Less(Zero, col[j])

DrawdownLaw(cum, dd, i) ==
    ~IsNaN(dd[i]) =>
        /\ Leq(dd[i], Zero)
        /\ AtRunningMax(cum, i) => dd[i] = Zero

\* C8 as stated: every defined drawdown value is <= 0, and 0 where the
\* cumulative series is at its running maximum, per asset and for the
\* portfolio under any weights.
C8_DrawdownNeverPositive ==
    rendered =>
        /\ \A k \in Rows(data) : \A i \in Rows(data[k].Drawdown) :
              DrawdownLaw(data[k].Cumulative, data[k].Drawdown, i)
        /\ \A i \in Rows(portfolio.drawdown) :
              DrawdownLaw(portfolio.Cumulative, portfolio.drawdown, i)

\* C8 as amended: every defined drawdown value is <= 0, and 0 where the
\* cumulative series is at its running maximum, per asset always and for
\* the portfolio at the rows where the running maximum of the composite
\* cumulative is positive.
C8_DrawdownUnderPositivePeak ==
    rendered =>
        /\ \A k \in Rows(data) : \A i \in Rows(data[k].Drawdown) :
              DrawdownLaw(data[k].Cumulative, data[k].Drawdown, i)
        /\ \A i \in Rows(portfolio.drawdown) :
              PositivePeak(portfolio.Cumulative, i) =>
                  DrawdownLaw(portfolio.Cumulative, portfolio.drawdown, i)

C8_Witness ==
    /\ rendered /\ portfolio.shown
    /\ \E k \in Rows(data) : \E i \in Rows(data[k].Drawdown) :
          Less(data[k].Drawdown[i], Zero)
    /\ \E i \in Rows(portfolio.drawdown) :
          /\ PositivePeak(portfolio.Cumulative, i)
          /\ Less(portfolio.drawdown[i], Zero)
    /\ \E i \in Rows(portfolio.drawdown) :
          /\ PositivePeak(portfolio.Cumulative, i)
          /\ AtRunningMax(portfolio.Cumulative, i)
    /\ \E i \in Rows(weights) : Less(weights[i], Zero)

\* the closes of the ticker shown first, as yfinance returned them
Closes == hist[<<tickers[1], period>>].Close

\* the losses of the RSIWindow price changes that end at row i
RECURSIVE LossSum(_, _, _)
LossSum(c, lo, hi) ==
    IF hi < lo THEN 0
    ELSE LossSum(c, lo, hi - 1) +
         (IF c[hi] < c[hi - 1] THEN c[hi - 1] - c[hi] ELSE 0)

\* C5: at every row with RSIWindow price changes behind it, RSI lies in
\* [0, 100], and it is 100 when the average loss of the window is 0.
C5_RSIBounded ==
    rendered =>
        \A i \in Rows(Closes) :
            i > RSIWindow =>
                /\ Leq(Zero, data[1].RSI[i])
                /\ Leq(data[1].RSI[i], Num(100))
                /\ LossSum(Closes, i - RSIWindow + 1, i) = 0 =>
                      data[1].RSI[i] = Num(100)

\* the product of close[j] / close[j-1] over j = 2..i, as 1 + r[j]
RECURSIVE Growth(_, _)
Growth(c, i) ==
    IF i <= 1 THEN One
    ELSE Mul(Growth(c, i - 1),
             Add(One, Sub(Div(Num(c[i]), Num(c[i - 1])), One)))

\* the product of (1 + r[j]) over j = 2..i, from a return column
RECURSIVE Rederived(_, _)
Rederived(r, i) ==
    IF i <= 1 THEN One ELSE Mul(Rederived(r, i - 1), Add(One, r[i]))

C10_MissingUntilEnoughHistory ==
    rendered =>
        \A i \in Rows(Closes) :
            /\ IsNaN(data[1].MA20[i]) <=> i < ma20_window
            /\ IsNaN(data[1].MA50[i]) <=> i < ma50_window
            /\ IsNaN(data[1].RSI[i]) <=> i <= RSIWindow

====
